---- MODULE Spec2Model ----
(***************************************************************************)
(* A model of the k8s-drone-controller reconcilers:                        *)
(*   - SwarmReconciler.Reconcile            (swarm controller)             *)
(*   - DroneReconciler.Reconcile            (pod-per-node strategy)        *)
(*   - DroneReconciler.Reconcile            (replica-counted strategy)     *)
(*   - DroneReconciler.Reconcile            (named-pod strategy, the       *)
(*                                           earlier pod variant)          *)
(* The object store is modelled by the sets of records it holds; a List    *)
(* returns the records in an order the store chooses.  A reconciler pass   *)
(* is a sequence of steps, one per store call: the step issues the call    *)
(* and runs the code up to the next call or to the return.  Other writers  *)
(* of the store act between the steps of a pass.  A controller runs one    *)
(* pass at a time.  Reads go to the store itself.  Any store call may      *)
(* return an error.  Names, namespaces and machines are numbered 1..N.     *)
(***************************************************************************)
EXTENDS Integers, Sequences, FiniteSets, TLC

\* ---------------------------------------------------------------- bounds
NumNames == 2
MaxHowMany == 2
MaxTriggers == 3
NumDrones == 2
NumNodes == 2
MaxReplicas == 1

Names == 1..NumNames
DroneNames == 1..NumDrones
Nodes == 1..NumNodes

VARIABLES
    swarm,      \* the Swarm record of the store
    drones,     \* the Drone records of the store (all namespaces)
    swInv,      \* the current (or last) SwarmReconciler.Reconcile pass
    quiet,      \* undisturbed runs: passes made so far, distance at the start
    queue,      \* work queue of the Swarm controller: namespaces of queued requests
    nodes,      \* pod-per-node: the machines carrying the drone role label
    podDrones,  \* pod-per-node: the Drone records of the namespace
    pods,       \* pod-per-node: the pods of the namespace
    podInv,     \* pod-per-node: the current (or last) DroneReconciler.Reconcile pass
    repDrones,  \* replica-counted: the Drone records of the namespace
    deployments,\* replica-counted: the Deployments of the namespace
    repInv,     \* replica-counted: the current (or last) DroneReconciler.Reconcile pass
    namedDrones,\* named-pod: the Drone records of the namespace
    namedPods,  \* named-pod: the pods of the namespace
    namedInv    \* named-pod: the current (or last) DroneReconciler.Reconcile pass

swarmVars == <<swarm, drones, swInv, quiet, queue>>
podVars == <<nodes, podDrones, pods, podInv>>
repVars == <<repDrones, deployments, repInv>>
namedVars == <<namedDrones, namedPods, namedInv>>
vars == <<swarmVars, podVars, repVars, namedVars>>

\* ------------------------------------------------------------ store helpers
\* The key of a namespaced object.
ObjectKey(ns, name) == [ns |-> ns, name |-> name]

\* The namespace the Swarm object lives in (req.Namespace of its requests),
\* and the namespaces of the cluster: that one and one other.
SwarmNamespace == 1
Namespaces == {SwarmNamespace, SwarmNamespace + 1}

\* The Drone records the store may hold: any of the names in the Swarm's
\* namespace, and in the other namespace one Drone, named like one of them.
DroneKeys ==
    {ObjectKey(SwarmNamespace, n) : n \in Names}
        \cup {ObjectKey(ns, CHOOSE n \in Names : TRUE) : ns \in Namespaces}

Range(s) == {s[i] : i \in 1..Len(s)}

Count(calls, c) == Len(SelectSeq(calls, LAMBDA x : x = c))

Abs(x) == IF x < 0 THEN 0 - x ELSE x

\* The records of S in key order.
RECURSIVE KeyOrder(_)
KeyOrder(S) ==
    IF S = {} THEN <<>>
    ELSE LET k == CHOOSE x \in S : \A y \in S :
                      x.ns < y.ns \/ (x.ns = y.ns /\ x.name <= y.name)
         IN <<k>> \o KeyOrder(S \ {k})

\* The orders in which a List call may return the records of S: the store
\* chooses which record comes first, the others follow in key order.
Listings(S) ==
    IF S = {} THEN {<<>>} ELSE {<<k>> \o KeyOrder(S \ {k}) : k \in S}

\* An optional int32 (a *int32 field): unset, or set to a value.
Unset == [set |-> FALSE, val |-> 0]
SomeInt(v) == [set |-> TRUE, val |-> v]

\* The write calls among the store calls of a pass.
Writes(calls) ==
    SelectSeq(calls, LAMBDA c : c \in {"create", "update", "status", "delete"})

\* ------------------------------------------------------------ pass records
\* A pass record holds the position of the pass (pc: "idle" before any pass,
\* the name of the store call it issues next, "done" after the return), the
\* returned result ("ok": nil error, "error": an error handed to the runtime,
\* "panic": a Go run-time panic; "none" while it runs), the store calls issued
\* so far, those that returned an error, and the local variables of the pass.

\* The pass returns.
Return(inv, result) == [inv EXCEPT !.pc = "done", !.result = result]

\* The call just issued returned an error.
Failed(inv, call) == [inv EXCEPT !.failed = @ \cup {call}]

\* The pass has issued a call and has not returned.
InFlight(inv) == inv.pc \notin {"idle", "done"}

SurfaceNotFound == "error"

\* return ctrl.Result{}, client.IgnoreNotFound(err), for the NotFound error of
\* the fetch of the primary object: a nil error.
IgnoreNotFound == "ok"

\* ------------------------------------------------------- swarm reconciler
\* if int32(len(drones.Items)) < *swarm.Spec.HowMany
NotMore(n, howMany) == n <= howMany

NotEnough(n, howMany) == n < howMany

TooManyOrFew(n, howMany) == n # howMany

\* if int32(len(drones.Items)) > *swarm.Spec.HowMany
TooMany(n, howMany) == n > howMany

\* The Drone object handed to r.Client.Create on scale-up.
NewDrone(req, name) == ObjectKey(req, name)

DeleteListed(req, listed) == ObjectKey(listed[1].ns, listed[1].name)

\* The Drone object handed to r.Delete on scale-down.
DeleteTarget(req, listed) == ObjectKey(req, listed[1].name)

\* The value written to swarm.Status.FlyingDrones from the second listing.
FlyingDrones(relisted) == Cardinality(relisted)

NoKey == ObjectKey(0, 0)

\* Locals of a Swarm pass: the first listing, the Spec.HowMany of the Swarm as
\* fetched, the records created and deleted, the length of the second listing
\* (and how many of its records lay in the request's namespace), and whether
\* the Swarm record was written by someone else since the fetch.
NoSwInv ==
    [req |-> 0, pc |-> "idle", result |-> "none", failed |-> {}, calls |-> <<>>,
     listed |-> <<>>, howMany |-> Unset, created |-> NoKey, deleted |-> NoKey,
     relisted |-> 0, relistedOwn |-> 0, stale |-> FALSE]

\* The pass moves on to the store call `pc`; scale-down of an empty listing
\* indexes drones.Items[0] out of range.
SwarmGoto(inv, pc) ==
    IF pc = "delete" /\ inv.listed = <<>> THEN Return(inv, "panic")
    ELSE [inv EXCEPT !.pc = pc]

\* The store call that follows the first listing of n records.
AfterList(n, howMany) ==
    IF NotEnough(n, howMany) THEN "create"
    ELSE IF TooMany(n, howMany) THEN "delete"
    ELSE "relist"

\* The store call that follows a successful Create.
AfterCreate(n, howMany) == IF TooMany(n, howMany) THEN "delete" ELSE "relist"

\* r.Client.Get(ctx, req.NamespacedName, &swarm): a pass begins, for any
\* request, or for the request a worker has taken off its queue.
SwarmGet(req, ok) ==
    /\ ~InFlight(swInv) \/ (swInv.pc = "get" /\ swInv.req = req)
    /\ swInv' =
          LET inv == [NoSwInv EXCEPT !.req = req, !.calls = <<"get">>] IN
          IF ~ok THEN Return(Failed(inv, "get"), "error")
          ELSE IF ~(swarm.exists /\ req = SwarmNamespace)
              THEN Return(inv, IgnoreNotFound)
          ELSE [inv EXCEPT !.pc = "list", !.howMany = swarm.howMany]
    /\ UNCHANGED <<swarm, drones>>

\* r.List(ctx, &drones), then the comparisons with *swarm.Spec.HowMany.  The
\* order of the listing is read on scale-down only.
SwarmList(listed, ok) ==
    /\ swInv.pc = "list"
    /\ \/ listed = KeyOrder(drones)
       \/ ok /\ swInv.howMany.set /\ TooMany(Len(listed), swInv.howMany.val)
    /\ swInv' =
          LET inv == [swInv EXCEPT !.calls = Append(@, "list")] IN
          IF ~ok THEN Return(Failed(inv, "list"), "error")
          ELSE IF ~inv.howMany.set
              THEN Return([inv EXCEPT !.listed = listed], "panic")
          ELSE SwarmGoto([inv EXCEPT !.listed = listed],
                         AfterList(Len(listed), inv.howMany.val))
    /\ UNCHANGED <<swarm, drones>>

\* r.Client.Create(ctx, &drone) with the generated name; the store rejects a
\* name that exists.
SwarmCreate(name, ok) ==
    /\ swInv.pc = "create"
    /\ LET inv == [swInv EXCEPT !.calls = Append(@, "create")]
           new == NewDrone(swInv.req, name)
           created == ok /\ new \notin drones IN
       /\ drones' = IF created THEN drones \cup {new} ELSE drones
       /\ swInv' =
             IF ~created THEN Return(Failed(inv, "create"), "error")
             ELSE SwarmGoto([inv EXCEPT !.created = new],
                            AfterCreate(Len(inv.listed), inv.howMany.val))
    /\ UNCHANGED swarm

\* r.Delete(ctx, &Drone{Name: drones.Items[0].Name, Namespace: req.Namespace});
\* the error the call returns is discarded.
SwarmDelete(ok) ==
    /\ swInv.pc = "delete"
    /\ LET inv == [swInv EXCEPT !.calls = Append(@, "delete")]
           target == DeleteTarget(swInv.req, swInv.listed)
           deleted == ok /\ target \in drones IN
       /\ drones' = IF deleted THEN drones \ {target} ELSE drones
       /\ swInv' =
             IF deleted THEN [inv EXCEPT !.deleted = target, !.pc = "relist"]
             ELSE [Failed(inv, "delete") EXCEPT !.pc = "relist"]
    /\ UNCHANGED swarm

\* The second r.List(ctx, &drones).
SwarmRelist(ok) ==
    /\ swInv.pc = "relist"
    /\ swInv' =
          LET inv == [swInv EXCEPT !.calls = Append(@, "relist")] IN
          IF ~ok THEN Return(Failed(inv, "relist"), "error")
          ELSE [inv EXCEPT !.pc = "update",
                           !.relisted = FlyingDrones(drones),
                           !.relistedOwn =
                               Cardinality({k \in drones : k.ns = swInv.req})]
    /\ UNCHANGED <<swarm, drones>>

\* r.Update(ctx, &swarm) with Status.FlyingDrones set; the store rejects the
\* write of a record that was written since it was fetched.
SwarmUpdate(ok) ==
    /\ swInv.pc = "update"
    /\ LET inv == [swInv EXCEPT !.calls = Append(@, "update")]
           written == ok /\ swarm.exists /\ ~swInv.stale IN
       /\ swarm' = IF written THEN [swarm EXCEPT !.flyingDrones = swInv.relisted]
                   ELSE swarm
       /\ swInv' = IF written THEN Return(inv, "ok")
                   ELSE Return(Failed(inv, "update"), "error")
    /\ UNCHANGED drones

\* SwarmReconciler.Reconcile: the next step of the pass in flight, or the
\* first step of a new pass for a request namespace of `reqs`; `oks` are the
\* outcomes the store calls may have, `names` the names the generator may give.
SwarmReconcile(reqs, oks, names) ==
    \/ \E req \in reqs, ok \in oks : SwarmGet(req, ok)
    \/ \E listed \in Listings(drones), ok \in oks : SwarmList(listed, ok)
    \/ \E name \in names, ok \in oks : SwarmCreate(name, ok)
    \/ \E ok \in oks : SwarmDelete(ok)
    \/ \E ok \in oks : SwarmRelist(ok)
    \/ \E ok \in oks : SwarmUpdate(ok)

NoQuiet == [triggers |-> 0, dist0 |-> 0]

\* ------------------------------------------------------- external actors
\* An operator (or another controller) creates a Drone record.
ExternalCreateDrone(k) ==
    /\ k \notin drones
    /\ drones' = drones \cup {k}
    /\ swInv' = IF InFlight(swInv) THEN swInv ELSE NoSwInv
    /\ UNCHANGED <<swarm, quiet, queue>>
    /\ UNCHANGED <<podVars, repVars, namedVars>>

\* An operator deletes a Drone record.
ExternalDeleteDrone(k) ==
    /\ k \in drones
    /\ drones' = drones \ {k}
    /\ swInv' = IF InFlight(swInv) THEN swInv ELSE NoSwInv
    /\ UNCHANGED <<swarm, quiet, queue>>
    /\ UNCHANGED <<podVars, repVars, namedVars>>

\* ------------------------------------------- drone reconciler, pod-per-node
\* Pods and the Drones of this strategy live in one namespace; a pod is
\* [exists, owner, target, nodeName]: its controller owner (a Drone name, 0
\* for none), the machine its node selector names (0 for none) and
\* Spec.NodeName, the machine the scheduler bound it to (0 for "").
NoPod == [exists |-> FALSE, owner |-> 0, target |-> 0, nodeName |-> 0]

NoDrone == [exists |-> FALSE, flying |-> FALSE]

\* The numbers of S in ascending order.
RECURSIVE Ascending(_)
Ascending(S) ==
    IF S = {} THEN <<>>
    ELSE LET k == CHOOSE x \in S : \A y \in S : x <= y
         IN <<k>> \o Ascending(S \ {k})

\* The orders in which the node List call may return the machines of S.
NodeListings(S) ==
    IF S = {} THEN {<<>>} ELSE {<<k>> \o Ascending(S \ {k}) : k \in S}

\* dronePodNodeNameList: Spec.NodeName of every pod of the namespace.
DronePodNodeNameList == {pods[p].nodeName : p \in {q \in DroneNames : pods[q].exists}}

stringInSlice(a, list) == a \in list

buildPodUnowned(Drone, dronenodename) ==
    [exists |-> TRUE, owner |-> 0, target |-> dronenodename, nodeName |-> 0]

buildPod(Drone, dronenodename) ==
    [exists |-> TRUE, owner |-> Drone, target |-> dronenodename, nodeName |-> 0]

\* The machines the placement loop looks at: the loop body returns on every
\* path, so only the first listed machine is ever examined.
Examined(dronenodes) == SubSeq(dronenodes, 1, IF Len(dronenodes) = 0 THEN 0 ELSE 1)

\* The error value tested after r.Update: the Update call's own error is
\* dropped, and `err` is the error of the pod lookup.
ErrAfterUpdate(lookupErr, updateErr) == lookupErr

\* Locals of a pod-per-node pass: whether the pod lookup found the pod, the
\* node listing, the occupied machine names collected from the pod listing,
\* Drone.Status.Flying of the fetched Drone object, and the pod created.
NoPodInv ==
    [req |-> 0, pc |-> "idle", result |-> "none", failed |-> {}, calls |-> <<>>,
     found |-> FALSE, listed |-> <<>>, occupied |-> {}, flying |-> FALSE,
     created |-> NoPod]

AfterGetPodResync(inv) ==
    IF inv.found THEN [inv EXCEPT !.pc = "update", !.flying = TRUE]
    ELSE [inv EXCEPT !.pc = "listNodes"]

AfterGetPodRecreate(inv) == [inv EXCEPT !.pc = "listNodes"]

\* After the pod lookup: the NotFound branch goes on to the node listing; a
\* pod that was found ends the pass with return ctrl.Result{}, nil.
AfterGetPod(inv) ==
    IF inv.found THEN Return(inv, "ok") ELSE [inv EXCEPT !.pc = "listNodes"]

\* r.Client.Get(ctx, req.NamespacedName, &Drone): a pass begins.
DroneGet(d, ok) ==
    /\ ~InFlight(podInv)
    /\ podInv' =
          LET inv == [NoPodInv EXCEPT !.req = d, !.calls = <<"get">>] IN
          IF ~ok THEN Return(Failed(inv, "get"), "error")
          ELSE IF ~podDrones[d].exists THEN Return(inv, IgnoreNotFound)
          ELSE [inv EXCEPT !.pc = "getPod", !.flying = podDrones[d].flying]
    /\ UNCHANGED <<nodes, podDrones, pods>>

\* r.Client.Get(ctx, ObjectKey{Drone.Namespace, Drone.Name}, &pod).
DroneGetPod(ok) ==
    /\ podInv.pc = "getPod"
    /\ podInv' =
          LET inv == [podInv EXCEPT !.calls = Append(@, "getPod")] IN
          IF ~ok THEN Return(Failed(inv, "getPod"), "error")
          ELSE AfterGetPod([inv EXCEPT !.found = pods[podInv.req].exists])
    /\ UNCHANGED <<nodes, podDrones, pods>>

\* r.List(ctx, &dronenodes, MatchingLabels{...}).
DroneListNodes(dronenodes, ok) ==
    /\ podInv.pc = "listNodes"
    /\ dronenodes = Ascending(nodes) \/ ok
    /\ podInv' =
          LET inv == [podInv EXCEPT !.calls = Append(@, "listNodes")] IN
          IF ~ok THEN Return(Failed(inv, "listNodes"), "error")
          ELSE [inv EXCEPT !.pc = "listPods", !.listed = dronenodes]
    /\ UNCHANGED <<nodes, podDrones, pods>>

\* r.List(ctx, &dronepods, InNamespace(...)), the collection of the node names
\* and the placement loop up to its store call.  With no machine listed the
\* loop body does not run and the NotFound error of the lookup is returned.
DroneListPods(ok) ==
    /\ podInv.pc = "listPods"
    /\ podInv' =
          LET inv == [podInv EXCEPT !.calls = Append(@, "listPods")]
              seen == Examined(podInv.listed) IN
          IF ~ok THEN Return(Failed(inv, "listPods"), "error")
          ELSE IF seen = <<>>
              THEN Return([inv EXCEPT !.occupied = DronePodNodeNameList], "error")
          ELSE IF ~stringInSlice(seen[1], DronePodNodeNameList)
              THEN [inv EXCEPT !.occupied = DronePodNodeNameList, !.pc = "create"]
          ELSE [inv EXCEPT !.occupied = DronePodNodeNameList, !.pc = "update",
                           !.flying = FALSE]
    /\ UNCHANGED <<nodes, podDrones, pods>>

\* r.Client.Create(ctx, &pod) of the pod built for the first listed machine;
\* the store rejects a name that exists.
DroneCreate(ok) ==
    /\ podInv.pc = "create"
    /\ LET d == podInv.req
           inv == [podInv EXCEPT !.calls = Append(@, "create")]
           pod == buildPod(d, Examined(podInv.listed)[1])
           created == ok /\ ~pods[d].exists IN
       /\ pods' = IF created THEN [pods EXCEPT ![d] = pod] ELSE pods
       /\ podInv' = IF created
                    THEN [inv EXCEPT !.pc = "update", !.flying = TRUE, !.created = pod]
                    ELSE Return(Failed(inv, "create"), "error")
    /\ UNCHANGED <<nodes, podDrones>>

\* r.Update(ctx, &Drone) with Status.Flying set, and the test of `err` that
\* follows it.
DroneUpdate(ok) ==
    /\ podInv.pc = "update"
    /\ LET d == podInv.req
           inv == [podInv EXCEPT !.calls = Append(@, "update")]
           written == ok /\ podDrones[d].exists
           err == ErrAfterUpdate(IF podInv.found THEN "nil" ELSE "NotFound",
                                 IF written THEN "nil" ELSE "failed") IN
       /\ podDrones' = IF written THEN [podDrones EXCEPT ![d].flying = podInv.flying]
                       ELSE podDrones
       /\ podInv' = Return(IF written THEN inv ELSE Failed(inv, "update"),
                           IF err # "nil" THEN "error" ELSE "ok")
    /\ UNCHANGED <<nodes, pods>>

\* DroneReconciler.Reconcile (pod-per-node): the next step of the pass in
\* flight, or the first step of a new pass for a Drone of `reqs`.
DroneReconcile(reqs, oks) ==
    \/ \E d \in reqs, ok \in oks : DroneGet(d, ok)
    \/ \E ok \in oks : DroneGetPod(ok)
    \/ \E dronenodes \in NodeListings(nodes), ok \in oks : DroneListNodes(dronenodes, ok)
    \/ \E ok \in oks : DroneListPods(ok)
    \/ \E ok \in oks : DroneCreate(ok)
    \/ \E ok \in oks : DroneUpdate(ok)

\* The external scheduler binds a pending pod to the machine its node
\* selector names.
SchedulerBind(p) ==
    /\ pods[p].exists
    /\ pods[p].nodeName = 0
    /\ pods[p].target \in nodes
    /\ pods' = [pods EXCEPT ![p].nodeName = pods[p].target]
    /\ podInv' = IF InFlight(podInv) THEN podInv ELSE NoPodInv
    /\ UNCHANGED <<nodes, podDrones>>

\* A pod of the namespace goes away (deleted by an operator, or evicted).
ExternalDeletePod(p) ==
    /\ pods[p].exists
    /\ pods' = [pods EXCEPT ![p] = NoPod]
    /\ podInv' = IF InFlight(podInv) THEN podInv ELSE NoPodInv
    /\ UNCHANGED <<nodes, podDrones>>

\* An operator deletes a Drone record.
ExternalDeletePodDrone(d) ==
    /\ podDrones[d].exists
    /\ podDrones' = [podDrones EXCEPT ![d] = NoDrone]
    /\ podInv' = IF InFlight(podInv) THEN podInv ELSE NoPodInv
    /\ UNCHANGED <<nodes, pods>>

\* ----------------------------------------- drone reconciler, replica-counted
\* The Deployments of the namespace: the canonical set "mydrones" and two
\* others.  A Deployment is [exists, owner, replicas, observed]: its controller
\* owner (a Drone name, 0 for none), Spec.Replicas (optional) and
\* Status.Replicas.
mydrones == "mydrones"
SetNames == {mydrones, "old-a", "old-b"}
SetOrder == <<mydrones, "old-a", "old-b">>

NoSet == [exists |-> FALSE, owner |-> 0, replicas |-> Unset, observed |-> 0]

\* A request name for which the store holds no Drone.
Deleted == 0

AllInOrder(d) == SelectSeq(SetOrder, LAMBDA n : deployments[n].exists)

\* The Deployments owned by Drone d, in the store's order.
OwnedInOrder(d) ==
    SelectSeq(SetOrder, LAMBDA n : deployments[n].exists /\ deployments[n].owner = d)

\* The orders in which the owner-indexed List call may return them: the store
\* chooses which comes first.
OwnedListings(d) ==
    LET o == OwnedInOrder(d) IN
    IF o = <<>> THEN {<<>>}
    ELSE {<<o[i]>> \o SelectSeq(o, LAMBDA n : n # o[i]) : i \in 1..Len(o)}

KeepsNothing(name) == FALSE

\* cleanupOwnedResources: the sets it skips (if depl.Name == "mydrones").
KeepsSet(name) == name = mydrones

\* The listed sets the loop of cleanupOwnedResources issues a Delete for.
ToDelete(owned) == SelectSeq(owned, LAMBDA n : ~KeepsSet(n))

\* The position after the listing or a Delete, with `todo` left to delete.
AfterCleanup(inv, todo, lookup) ==
    [inv EXCEPT !.todo = todo, !.pc = IF todo = <<>> THEN lookup ELSE "delete"]

cleanupContinues(inv, deleted) ==
    IF deleted THEN AfterCleanup(inv, Tail(inv.todo), "getSet")
    ELSE AfterCleanup(Failed(inv, "delete"), Tail(inv.todo), "getSet")

\* The loop of cleanupOwnedResources after one Delete call: a failed Delete
\* returns the error, which Reconcile returns in turn.
cleanupOwnedResources(inv, deleted) ==
    IF deleted THEN AfterCleanup(inv, Tail(inv.todo), "getSet")
    ELSE Return(Failed(inv, "delete"), "error")

expectedOne(howMany) == 1

expectedZero(howMany) == 0

\* expectedReplicas: 1 unless Drone.Spec.HowMany is set.
expectedReplicas(howMany) == IF howMany.set THEN howMany.val ELSE 1

buildDeploymentNoCount(d, howMany) ==
    [exists |-> TRUE, owner |-> d, replicas |-> Unset, observed |-> 0]

buildDeploymentUnowned(d, howMany) ==
    [exists |-> TRUE, owner |-> 0, replicas |-> howMany, observed |-> 0]

\* buildDeployment: named "mydrones", with a controller reference to the Drone;
\* Replicas is Drone.Spec.HowMany as it is, unset when that is unset.
buildDeployment(d, howMany) ==
    [exists |-> TRUE, owner |-> d, replicas |-> howMany, observed |-> 0]

\* The store's defaulting of a Deployment it is asked to create: an unset
\* Spec.Replicas becomes 1, so no stored Deployment has an unset count.
SetDefaults_Deployment(deployment) ==
    [deployment EXCEPT !.replicas = IF @.set THEN @ ELSE SomeInt(1)]

StatusReplicasDeclared(deployment) == deployment.replicas.val

\* deployment.Status.Replicas, the value the sync phase assigns to
\* Drone.Status.FlyingDrones.
StatusReplicas(deployment) == deployment.observed

\* The error value tested after Status().Update: the call's own error is
\* dropped, and `err` is the (nil) error of the Deployment lookup.
ErrAfterStatusUpdate(lookupErr, updateErr) == lookupErr

\* Locals of a replica-counted pass: the listing of owned sets, the sets still
\* to delete, Spec.HowMany of the fetched Drone, the Deployment as fetched,
\* and whether the pass directly follows a completed pass for the same Drone.
NoRepInv ==
    [req |-> 0 - 1, pc |-> "idle", result |-> "none", failed |-> {}, calls |-> <<>>,
     owned |-> <<>>, todo |-> <<>>, howMany |-> Unset, deployment |-> NoSet,
     repeat |-> FALSE]

\* r.Client.Get(ctx, req.NamespacedName, &Drone): a pass begins.
ReplicaGet(d, ok) ==
    /\ ~InFlight(repInv)
    /\ repInv' =
          LET inv == [NoRepInv EXCEPT !.req = d, !.calls = <<"get">>,
                          !.repeat = (repInv.req = d /\ repInv.result = "ok")] IN
          IF ~ok THEN Return(Failed(inv, "get"), "error")
          ELSE IF d = Deleted THEN Return(inv, IgnoreNotFound)
          ELSE [inv EXCEPT !.pc = "listOwned", !.howMany = repDrones[d].howMany]
    /\ UNCHANGED <<repDrones, deployments>>

\* cleanupOwnedResources: r.List(ctx, &deployments, InNamespace(...),
\* MatchingField(deploymentOwnerKey, Drone.Name)).
ReplicaListOwned(owned, ok) ==
    /\ repInv.pc = "listOwned"
    /\ owned = OwnedInOrder(repInv.req) \/ ok
    /\ repInv' =
          LET inv == [repInv EXCEPT !.calls = Append(@, "listOwned")] IN
          IF ~ok THEN Return(Failed(inv, "listOwned"), "error")
          ELSE AfterCleanup([inv EXCEPT !.owned = owned], ToDelete(owned), "getSet")
    /\ UNCHANGED <<repDrones, deployments>>

\* cleanupOwnedResources: r.Client.Delete(ctx, &depl) for the next listed set.
ReplicaDelete(ok) ==
    /\ repInv.pc = "delete"
    /\ LET inv == [repInv EXCEPT !.calls = Append(@, "delete")]
           n == Head(repInv.todo)
           deleted == ok /\ deployments[n].exists IN
       /\ deployments' = IF deleted THEN [deployments EXCEPT ![n] = NoSet]
                         ELSE deployments
       /\ repInv' = cleanupOwnedResources(inv, deleted)
    /\ UNCHANGED repDrones

\* r.Client.Get(ctx, ObjectKey{Drone.Namespace, "mydrones"}, &deployment), and
\* for a set that was found the comparison of *deployment.Spec.Replicas with
\* expectedReplicas.  The dereference would panic on an unset count; the store
\* holds none, since it defaults the count of every Deployment it creates.
ReplicaGetSet(ok) ==
    /\ repInv.pc = "getSet"
    /\ repInv' =
          LET inv == [repInv EXCEPT !.calls = Append(@, "getSet")]
              deployment == deployments[mydrones]
              got == [inv EXCEPT !.deployment = deployment] IN
          IF ~ok THEN Return(Failed(inv, "getSet"), "error")
          ELSE IF ~deployment.exists THEN [got EXCEPT !.pc = "create"]
          ELSE IF ~deployment.replicas.set THEN Return(got, "panic")
          ELSE IF deployment.replicas.val # expectedReplicas(repInv.howMany)
              THEN [got EXCEPT !.pc = "update"]
          ELSE [got EXCEPT !.pc = "status"]
    /\ UNCHANGED <<repDrones, deployments>>

\* r.Client.Create(ctx, &deployment) of the built Deployment; the store rejects
\* a name that exists, and stores the Deployment with its defaults applied.
ReplicaCreate(ok) ==
    /\ repInv.pc = "create"
    /\ LET inv == [repInv EXCEPT !.calls = Append(@, "create")]
           created == ok /\ ~deployments[mydrones].exists IN
       /\ deployments' =
             IF created
             THEN [deployments EXCEPT
                      ![mydrones] =
                          SetDefaults_Deployment(buildDeployment(repInv.req, repInv.howMany))]
             ELSE deployments
       /\ repInv' = IF created THEN Return(inv, "ok")
                    ELSE Return(Failed(inv, "create"), "error")
    /\ UNCHANGED repDrones

\* r.Client.Update(ctx, &deployment) with Spec.Replicas set to
\* expectedReplicas; the store rejects the write of a record that was written
\* since it was fetched.
ReplicaUpdate(ok) ==
    /\ repInv.pc = "update"
    /\ LET inv == [repInv EXCEPT !.calls = Append(@, "update")]
           written == ok /\ deployments[mydrones] = repInv.deployment IN
       /\ deployments' =
             IF written
             THEN [deployments EXCEPT
                      ![mydrones].replicas = SomeInt(expectedReplicas(repInv.howMany))]
             ELSE deployments
       /\ repInv' = IF written THEN Return(inv, "ok")
                    ELSE Return(Failed(inv, "update"), "error")
    /\ UNCHANGED repDrones

\* r.Client.Status().Update(ctx, &Drone) with Status.FlyingDrones set to
\* deployment.Status.Replicas, and the test of `err` that follows it.
ReplicaStatus(ok) ==
    /\ repInv.pc = "status"
    /\ LET d == repInv.req
           inv == [repInv EXCEPT !.calls = Append(@, "status")]
           err == ErrAfterStatusUpdate("nil", IF ok THEN "nil" ELSE "failed") IN
       /\ repDrones' =
             IF ok THEN [repDrones EXCEPT ![d].flyingDrones = StatusReplicas(repInv.deployment)]
             ELSE repDrones
       /\ repInv' = Return(IF ok THEN inv ELSE Failed(inv, "status"),
                           IF err # "nil" THEN "error" ELSE "ok")
    /\ UNCHANGED deployments

\* DroneReconciler.Reconcile (replica-counted): the next step of the pass in
\* flight, or the first step of a new pass for a request name of `reqs`.
ReplicaReconcile(reqs, oks) ==
    \/ \E d \in reqs, ok \in oks : ReplicaGet(d, ok)
    \/ \E owned \in OwnedListings(repInv.req), ok \in oks : ReplicaListOwned(owned, ok)
    \/ \E ok \in oks : ReplicaDelete(ok)
    \/ \E ok \in oks : ReplicaGetSet(ok)
    \/ \E ok \in oks : ReplicaCreate(ok)
    \/ \E ok \in oks : ReplicaUpdate(ok)
    \/ \E ok \in oks : ReplicaStatus(ok)

\* A writer other than the pass acts: the pass in flight no longer directly
\* follows the one before it; a pass that has returned is no longer the last
\* thing that happened.
RepDisturbed == IF InFlight(repInv) THEN [repInv EXCEPT !.repeat = FALSE] ELSE NoRepInv

\* The external Deployment controller brings the observed replica count of a
\* set to its declared count (followed for the canonical set only: the
\* reconciler never reads the observed count of another set).
DeploymentController(n) ==
    /\ n = mydrones
    /\ deployments[n].exists
    /\ deployments[n].replicas.set
    /\ deployments[n].observed # deployments[n].replicas.val
    /\ deployments' = [deployments EXCEPT ![n].observed = deployments[n].replicas.val]
    /\ repInv' = RepDisturbed
    /\ UNCHANGED repDrones

\* An operator creates a Deployment, possibly with a controller reference to
\* a Drone; the store defaults its replica count to 1.
ExternalCreateSet(n, owner) ==
    /\ ~deployments[n].exists
    /\ deployments' = [deployments EXCEPT ![n] =
            [exists |-> TRUE, owner |-> owner, replicas |-> SomeInt(1), observed |-> 0]]
    /\ repInv' = RepDisturbed
    /\ UNCHANGED repDrones

\* ------------------------------------------------ drone reconciler, named-pod
\* The earlier pod variant: a Drone names its pod in Spec.Name and reports
\* it in Status.Name.  Drones are [exists, name, statusName] (0 for an empty
\* Status.Name); pods are named like the Drones' Spec.Name values and are
\* [exists, owner].
NoNamedDrone == [exists |-> FALSE, name |-> 0, statusName |-> 0]

NoNamedPod == [exists |-> FALSE, owner |-> 0]

PodNames == 1..NumNames

\* The pods owned by Drone d, in name order.
OwnedPodsInOrder(d) ==
    Ascending({p \in PodNames : namedPods[p].exists /\ namedPods[p].owner = d})

\* The orders in which the owner-indexed List call may return them.
OwnedPodListings(d) ==
    NodeListings({p \in PodNames : namedPods[p].exists /\ namedPods[p].owner = d})

\* cleanupOwnedResources: the pods it skips (if po.Name == Drone.Spec.Name).
KeepsPod(name, specName) == name = specName

\* buildPod(Drone): named Drone.Spec.Name, owned by the Drone.
buildNamedPod(Drone) == [exists |-> TRUE, owner |-> Drone]

\* Locals of a named-pod pass: Spec.Name of the fetched Drone, the listing of
\* owned pods, the pods still to delete and the name of the pod fetched.
NoNamedInv ==
    [req |-> 0, pc |-> "idle", result |-> "none", failed |-> {}, calls |-> <<>>,
     name |-> 0, owned |-> <<>>, todo |-> <<>>, podName |-> 0]

\* r.Client.Get(ctx, req.NamespacedName, &Drone): a pass begins.
NamedGet(d, ok) ==
    /\ ~InFlight(namedInv)
    /\ namedInv' =
          LET inv == [NoNamedInv EXCEPT !.req = d, !.calls = <<"get">>] IN
          IF ~ok THEN Return(Failed(inv, "get"), "error")
          ELSE IF ~namedDrones[d].exists THEN Return(inv, IgnoreNotFound)
          ELSE [inv EXCEPT !.pc = "listOwned", !.name = namedDrones[d].name]
    /\ UNCHANGED <<namedDrones, namedPods>>

\* cleanupOwnedResources: r.List(ctx, &pods, InNamespace(...),
\* MatchingField(podOwnerKey, Drone.Name)).
NamedListOwned(owned, ok) ==
    /\ namedInv.pc = "listOwned"
    /\ owned = OwnedPodsInOrder(namedInv.req) \/ ok
    /\ namedInv' =
          LET inv == [namedInv EXCEPT !.calls = Append(@, "listOwned")] IN
          IF ~ok THEN Return(Failed(inv, "listOwned"), "error")
          ELSE AfterCleanup([inv EXCEPT !.owned = owned],
                            SelectSeq(owned, LAMBDA p : ~KeepsPod(p, namedInv.name)),
                            "getPod")
    /\ UNCHANGED <<namedDrones, namedPods>>

\* cleanupOwnedResources: r.Client.Delete(ctx, &po) for the next listed pod; a
\* failed Delete returns the error, which Reconcile returns in turn.
NamedDelete(ok) ==
    /\ namedInv.pc = "delete"
    /\ LET inv == [namedInv EXCEPT !.calls = Append(@, "delete")]
           p == Head(namedInv.todo)
           deleted == ok /\ namedPods[p].exists IN
       /\ namedPods' = IF deleted THEN [namedPods EXCEPT ![p] = NoNamedPod]
                       ELSE namedPods
       /\ namedInv' = IF deleted THEN AfterCleanup(inv, Tail(inv.todo), "getPod")
                      ELSE Return(Failed(inv, "delete"), "error")
    /\ UNCHANGED namedDrones

\* r.Client.Get(ctx, ObjectKey{Drone.Namespace, Drone.Spec.Name}, &pod).
NamedGetPod(ok) ==
    /\ namedInv.pc = "getPod"
    /\ namedInv' =
          LET inv == [namedInv EXCEPT !.calls = Append(@, "getPod")] IN
          IF ~ok THEN Return(Failed(inv, "getPod"), "error")
          ELSE IF ~namedPods[namedInv.name].exists THEN [inv EXCEPT !.pc = "create"]
          ELSE [inv EXCEPT !.pc = "status", !.podName = namedInv.name]
    /\ UNCHANGED <<namedDrones, namedPods>>

\* r.Client.Create(ctx, &pod) of the built pod; the store rejects a name that
\* exists.
NamedCreate(ok) ==
    /\ namedInv.pc = "create"
    /\ LET inv == [namedInv EXCEPT !.calls = Append(@, "create")]
           created == ok /\ ~namedPods[namedInv.name].exists IN
       /\ namedPods' =
             IF created
             THEN [namedPods EXCEPT ![namedInv.name] = buildNamedPod(namedInv.req)]
             ELSE namedPods
       /\ namedInv' = IF created THEN Return(inv, "ok")
                      ELSE Return(Failed(inv, "create"), "error")
    /\ UNCHANGED namedDrones

\* r.Client.Status().Update(ctx, &Drone) with Status.Name set to pod.Name, and
\* the test of `err` that follows it.
NamedStatus(ok) ==
    /\ namedInv.pc = "status"
    /\ LET d == namedInv.req
           inv == [namedInv EXCEPT !.calls = Append(@, "status")]
           written == ok /\ namedDrones[d].exists
           err == ErrAfterStatusUpdate("nil", IF written THEN "nil" ELSE "failed") IN
       /\ namedDrones' =
             IF written THEN [namedDrones EXCEPT ![d].statusName = namedInv.podName]
             ELSE namedDrones
       /\ namedInv' = Return(IF written THEN inv ELSE Failed(inv, "status"),
                             IF err # "nil" THEN "error" ELSE "ok")
    /\ UNCHANGED namedPods

\* DroneReconciler.Reconcile (named-pod): the next step of the pass in flight,
\* or the first step of a new pass for a Drone of `reqs`.
NamedReconcile(reqs, oks) ==
    \/ \E d \in reqs, ok \in oks : NamedGet(d, ok)
    \/ \E owned \in OwnedPodListings(namedInv.req), ok \in oks : NamedListOwned(owned, ok)
    \/ \E ok \in oks : NamedDelete(ok)
    \/ \E ok \in oks : NamedGetPod(ok)
    \/ \E ok \in oks : NamedCreate(ok)
    \/ \E ok \in oks : NamedStatus(ok)

\* An operator (or another controller) creates a pod, possibly with a
\* controller reference to a Drone.
ExternalCreateNamedPod(p, owner) ==
    /\ ~namedPods[p].exists
    /\ namedPods' = [namedPods EXCEPT ![p] = [exists |-> TRUE, owner |-> owner]]
    /\ namedInv' = IF InFlight(namedInv) THEN namedInv ELSE NoNamedInv
    /\ UNCHANGED namedDrones

\* Variables of one strategy stay at rest while another one runs.
RestSwarm == [exists |-> FALSE, howMany |-> Unset, flyingDrones |-> 0]
RestPodDrones == [d \in DroneNames |-> NoDrone]
RestPods == [p \in DroneNames |-> NoPod]
RestRepDrones == [d \in DroneNames |-> [howMany |-> Unset, flyingDrones |-> 0]]
RestSets == [n \in SetNames |-> NoSet]
RestNamedDrones == [d \in DroneNames |-> NoNamedDrone]
RestNamedPods == [p \in PodNames |-> NoNamedPod]

\* ------------------------------------------------------------ swarm specs
SwarmStates ==
    {RestSwarm} \cup
    [exists : {TRUE},
     howMany : {Unset} \cup {SomeInt(v) : v \in (0 - 1)..MaxHowMany},
     flyingDrones : {0}]

InitSwarm ==
    /\ swarm \in SwarmStates
    /\ drones \in SUBSET DroneKeys
    /\ swInv = NoSwInv
    /\ quiet = NoQuiet
    /\ queue = {}
    /\ nodes = {}
    /\ podDrones = RestPodDrones
    /\ pods = RestPods
    /\ podInv = NoPodInv
    /\ repDrones = RestRepDrones
    /\ deployments = RestSets
    /\ repInv = NoRepInv
    /\ namedDrones = RestNamedDrones
    /\ namedPods = RestNamedPods
    /\ namedInv = NoNamedInv

SwarmReconcileAny ==
    /\ SwarmReconcile(Namespaces, BOOLEAN, Names)
    /\ UNCHANGED <<quiet, queue, podVars, repVars, namedVars>>

NextSwarm ==
    \/ SwarmReconcileAny
    \/ \E k \in DroneKeys : ExternalCreateDrone(k)
    \/ \E k \in DroneKeys : ExternalDeleteDrone(k)

SpecSwarm == InitSwarm /\ [][NextSwarm]_vars

\* Undisturbed runs of the Swarm Reconciler: the Swarm exists with a count set,
\* its status holds the count a previous pass observed, nobody else writes,
\* no store call fails and every generated name is fresh.
InitSwarmQuiet ==
    /\ drones \in SUBSET DroneKeys
    /\ \E v \in 0..MaxHowMany :
          swarm = [exists |-> TRUE, howMany |-> SomeInt(v),
                   flyingDrones |-> Cardinality(drones)]
    /\ swInv = NoSwInv
    /\ quiet = [triggers |-> 0,
                dist0 |-> Abs(swarm.howMany.val - swarm.flyingDrones)]
    /\ queue = {}
    /\ nodes = {}
    /\ podDrones = RestPodDrones
    /\ pods = RestPods
    /\ podInv = NoPodInv
    /\ repDrones = RestRepDrones
    /\ deployments = RestSets
    /\ repInv = NoRepInv
    /\ namedDrones = RestNamedDrones
    /\ namedPods = RestNamedPods
    /\ namedInv = NoNamedInv

\* The names of the generator that no Drone of the namespace carries.
FreshNames(req) == {name \in Names : NewDrone(req, name) \notin drones}

SwarmTrigger ==
    /\ InFlight(swInv) \/ quiet.triggers < MaxTriggers
    /\ SwarmReconcile({SwarmNamespace}, {TRUE}, FreshNames(SwarmNamespace))
    /\ quiet' = IF InFlight(swInv) THEN quiet ELSE [quiet EXCEPT !.triggers = @ + 1]
    /\ UNCHANGED queue
    /\ UNCHANGED <<podVars, repVars, namedVars>>

NextSwarmQuiet == SwarmTrigger

SpecSwarmQuiet == InitSwarmQuiet /\ [][NextSwarmQuiet]_vars

\* The Swarm controller as the manager runs it: SetupWithManager registers the
\* Swarm kind only, so a request is queued when the controller starts and when
\* a write changes the Swarm record; writes to Drone records queue nothing.
InitSwarmWatch ==
    /\ drones \in SUBSET {k \in DroneKeys : k.ns = SwarmNamespace}
    /\ \E v \in 0..MaxHowMany :
          swarm = [exists |-> TRUE, howMany |-> SomeInt(v),
                   flyingDrones |-> Cardinality(drones)]
    /\ swInv = NoSwInv
    /\ quiet = NoQuiet
    /\ queue = {SwarmNamespace}
    /\ nodes = {}
    /\ podDrones = RestPodDrones
    /\ pods = RestPods
    /\ podInv = NoPodInv
    /\ repDrones = RestRepDrones
    /\ deployments = RestSets
    /\ repInv = NoRepInv
    /\ namedDrones = RestNamedDrones
    /\ namedPods = RestNamedPods
    /\ namedInv = NoNamedInv

\* The worker takes a queued request off the queue and calls Reconcile with it.
SwarmDequeue(req) ==
    /\ ~InFlight(swInv)
    /\ req \in queue
    /\ queue' = queue \ {req}
    /\ swInv' = [NoSwInv EXCEPT !.req = req, !.pc = "get"]
    /\ UNCHANGED <<swarm, drones>>

\* The worker: it takes the request off the queue, or runs the next step of
\* the pass it has begun.  The name generator may return any name, one in use
\* included.  The request is queued again when the pass changes the Swarm
\* record and when it returns an error.
SwarmWorker ==
    /\ \/ SwarmDequeue(SwarmNamespace)
       \/ /\ InFlight(swInv)
          /\ SwarmReconcile({SwarmNamespace}, BOOLEAN, Names)
          /\ queue' =
                IF swarm' # swarm \/ swInv'.result = "error"
                THEN queue \cup {SwarmNamespace}
                ELSE queue
    /\ UNCHANGED <<quiet, podVars, repVars, namedVars>>

\* An operator changes the desired count of the Swarm: a watched event.  A
\* pass that has fetched the Swarm holds a stale copy from then on.
ExternalSetHowMany(v) ==
    /\ swarm.howMany # SomeInt(v)
    /\ swarm' = [swarm EXCEPT !.howMany = SomeInt(v)]
    /\ queue' = queue \cup {SwarmNamespace}
    /\ swInv' = IF ~InFlight(swInv) THEN NoSwInv
                ELSE IF swInv.pc = "get" THEN swInv
                ELSE [swInv EXCEPT !.stale = TRUE]
    /\ UNCHANGED <<drones, quiet, podVars, repVars, namedVars>>

NextSwarmWatch ==
    \/ SwarmWorker
    \/ \E v \in 0..MaxHowMany : ExternalSetHowMany(v)
    \/ \E k \in DroneKeys : k.ns = SwarmNamespace /\ ExternalCreateDrone(k)
    \/ \E k \in DroneKeys : k.ns = SwarmNamespace /\ ExternalDeleteDrone(k)

SpecSwarmWatch ==
    InitSwarmWatch /\ [][NextSwarmWatch]_vars /\ WF_vars(SwarmWorker)

\* -------------------------------------------------------------- pod specs
InitPod ==
    /\ \E k \in 0..NumNodes : nodes = 1..k
    /\ podDrones \in [DroneNames -> {NoDrone, [exists |-> TRUE, flying |-> FALSE]}]
    /\ pods = RestPods
    /\ podInv = NoPodInv
    /\ repDrones = RestRepDrones
    /\ deployments = RestSets
    /\ repInv = NoRepInv
    /\ swarm = RestSwarm
    /\ drones = {}
    /\ swInv = NoSwInv
    /\ quiet = NoQuiet
    /\ queue = {}
    /\ namedDrones = RestNamedDrones
    /\ namedPods = RestNamedPods
    /\ namedInv = NoNamedInv

DroneReconcileAny ==
    /\ DroneReconcile(DroneNames, BOOLEAN)
    /\ UNCHANGED <<swarmVars, repVars, namedVars>>

NextPod ==
    \/ DroneReconcileAny
    \/ \E p \in DroneNames :
          SchedulerBind(p) /\ UNCHANGED <<swarmVars, repVars, namedVars>>
    \/ \E p \in DroneNames :
          ExternalDeletePod(p) /\ UNCHANGED <<swarmVars, repVars, namedVars>>
    \/ \E d \in DroneNames :
          ExternalDeletePodDrone(d) /\ UNCHANGED <<swarmVars, repVars, namedVars>>

SpecPod == InitPod /\ [][NextPod]_vars

\* ---------------------------------------------------------- replica specs
InitReplica ==
    /\ repDrones \in [DroneNames ->
            [howMany : {Unset} \cup {SomeInt(v) : v \in 0..MaxReplicas},
             flyingDrones : {0}]]
    /\ deployments = RestSets
    /\ repInv = NoRepInv
    /\ swarm = RestSwarm
    /\ drones = {}
    /\ swInv = NoSwInv
    /\ quiet = NoQuiet
    /\ queue = {}
    /\ nodes = {}
    /\ podDrones = RestPodDrones
    /\ pods = RestPods
    /\ podInv = NoPodInv
    /\ namedDrones = RestNamedDrones
    /\ namedPods = RestNamedPods
    /\ namedInv = NoNamedInv

ReplicaReconcileAny ==
    /\ ReplicaReconcile({Deleted} \cup DroneNames, BOOLEAN)
    /\ UNCHANGED <<swarmVars, podVars, namedVars>>

DeploymentControllerAny ==
    \E n \in SetNames :
        DeploymentController(n) /\ UNCHANGED <<swarmVars, podVars, namedVars>>

ExternalCreateSetAny ==
    \E n \in SetNames, owner \in {0} \cup DroneNames :
        ExternalCreateSet(n, owner) /\ UNCHANGED <<swarmVars, podVars, namedVars>>

NextReplica ==
    \/ ReplicaReconcileAny
    \/ DeploymentControllerAny
    \/ ExternalCreateSetAny

SpecReplica == InitReplica /\ [][NextReplica]_vars

\* One pass of the pod-per-node reconciler from any store state: the pods of
\* the namespace may be owned by any Drone or by none, pending or bound.  The
\* other writers act while the pass is in flight.
StoredPods ==
    [DroneNames -> {NoPod} \cup
        {[exists |-> TRUE, owner |-> o, target |-> n, nodeName |-> n] :
            o \in {0} \cup DroneNames, n \in {0} \cup Nodes}]

InitPodPass ==
    /\ \E k \in 0..NumNodes : nodes = 1..k
    /\ podDrones \in [DroneNames -> {NoDrone, [exists |-> TRUE, flying |-> FALSE]}]
    /\ pods \in StoredPods
    /\ podInv = NoPodInv
    /\ swarm = RestSwarm
    /\ drones = {}
    /\ swInv = NoSwInv
    /\ quiet = NoQuiet
    /\ queue = {}
    /\ repDrones = RestRepDrones
    /\ deployments = RestSets
    /\ repInv = NoRepInv
    /\ namedDrones = RestNamedDrones
    /\ namedPods = RestNamedPods
    /\ namedInv = NoNamedInv

DroneReconcileOnce ==
    /\ podInv.pc # "done"
    /\ DroneReconcileAny

PodWritersMeanwhile ==
    /\ InFlight(podInv)
    /\ \E p \in DroneNames :
          \/ SchedulerBind(p)
          \/ ExternalDeletePod(p)
          \/ ExternalDeletePodDrone(p)
    /\ UNCHANGED <<swarmVars, repVars, namedVars>>

NextPodPass ==
    \/ DroneReconcileOnce
    \/ PodWritersMeanwhile

SpecPodPass == InitPodPass /\ [][NextPodPass]_vars

\* Undisturbed runs of the replica-counted reconciler for one Drone: only
\* Drone 1 is reconciled, no store call fails and nobody else writes.  The
\* canonical set is absent at the start, or present with a declared count.
InitReplicaQuiet ==
    /\ \E h \in {Unset} \cup {SomeInt(v) : v \in 0..MaxReplicas}, f \in 0..MaxReplicas :
          repDrones = [RestRepDrones EXCEPT ![1] = [howMany |-> h, flyingDrones |-> f]]
    /\ \E c \in {NoSet} \cup
                [exists : {TRUE}, owner : {0} \cup DroneNames,
                 replicas : {SomeInt(v) : v \in 0..MaxReplicas},
                 observed : 0..MaxReplicas] :
          deployments = [RestSets EXCEPT ![mydrones] = c]
    /\ repInv = NoRepInv
    /\ swarm = RestSwarm
    /\ drones = {}
    /\ swInv = NoSwInv
    /\ quiet = NoQuiet
    /\ queue = {}
    /\ nodes = {}
    /\ podDrones = RestPodDrones
    /\ pods = RestPods
    /\ podInv = NoPodInv
    /\ namedDrones = RestNamedDrones
    /\ namedPods = RestNamedPods
    /\ namedInv = NoNamedInv

ReplicaTrigger ==
    /\ ReplicaReconcile({1}, {TRUE})
    /\ UNCHANGED <<swarmVars, podVars, namedVars>>

SpecReplicaQuiet ==
    InitReplicaQuiet /\ [][ReplicaTrigger]_vars /\ WF_vars(ReplicaTrigger)

\* One pass of the replica-counted reconciler from any store state; the other
\* writers act while the pass is in flight.  Every stored Deployment has a
\* declared count: the store defaults it on create.
StoredSets ==
    [SetNames -> {NoSet} \cup
        [exists : {TRUE}, owner : {0} \cup DroneNames,
         replicas : {SomeInt(v) : v \in 0..MaxReplicas},
         observed : 0..MaxReplicas]]

InitReplicaPass ==
    /\ repDrones \in [DroneNames ->
            [howMany : {Unset} \cup {SomeInt(v) : v \in 0..MaxReplicas},
             flyingDrones : {0}]]
    /\ deployments \in {s \in StoredSets :
            \A n \in SetNames \ {mydrones} :
                s[n].exists => (s[n].replicas = SomeInt(1) /\ s[n].observed = 0)}
    /\ repInv = NoRepInv
    /\ swarm = RestSwarm
    /\ drones = {}
    /\ swInv = NoSwInv
    /\ quiet = NoQuiet
    /\ queue = {}
    /\ nodes = {}
    /\ podDrones = RestPodDrones
    /\ pods = RestPods
    /\ podInv = NoPodInv
    /\ namedDrones = RestNamedDrones
    /\ namedPods = RestNamedPods
    /\ namedInv = NoNamedInv

ReplicaReconcileOnce ==
    /\ repInv.pc # "done"
    /\ ReplicaReconcileAny

ReplicaWritersMeanwhile ==
    /\ InFlight(repInv)
    /\ DeploymentControllerAny \/ ExternalCreateSetAny

NextReplicaPass ==
    \/ ReplicaReconcileOnce
    \/ ReplicaWritersMeanwhile

SpecReplicaPass == InitReplicaPass /\ [][NextReplicaPass]_vars

\* ------------------------------------------- requests for deleted objects
\* Each reconciler is invoked once for a request whose primary object the
\* store does not hold: a Swarm request for a namespace without Swarm, a
\* Drone request (any strategy) for a Drone that was deleted.
InitAbsent ==
    /\ swarm \in {RestSwarm,
                  [exists |-> TRUE, howMany |-> SomeInt(1), flyingDrones |-> 0]}
    /\ drones \in {{}, DroneKeys}
    /\ swInv = NoSwInv
    /\ quiet = NoQuiet
    /\ queue = {}
    /\ nodes = Nodes
    /\ podDrones \in [DroneNames -> {NoDrone, [exists |-> TRUE, flying |-> FALSE]}]
    /\ pods = RestPods
    /\ podInv = NoPodInv
    /\ repDrones = RestRepDrones
    /\ deployments \in {RestSets,
            [RestSets EXCEPT ![mydrones] =
                [exists |-> TRUE, owner |-> 0, replicas |-> SomeInt(1), observed |-> 0]]}
    /\ repInv = NoRepInv
    /\ namedDrones = RestNamedDrones
    /\ namedPods \in {RestNamedPods, [p \in PodNames |-> buildNamedPod(1)]}
    /\ namedInv = NoNamedInv

SwarmReconcileAbsent ==
    /\ swInv = NoSwInv
    /\ \E req \in Namespaces, ok \in BOOLEAN :
          /\ ~(swarm.exists /\ req = SwarmNamespace)
          /\ SwarmGet(req, ok)
          /\ UNCHANGED <<quiet, queue, podVars, repVars, namedVars>>

DroneReconcileAbsent ==
    /\ podInv = NoPodInv
    /\ \E d \in DroneNames, ok \in BOOLEAN :
          /\ ~podDrones[d].exists
          /\ DroneGet(d, ok)
          /\ UNCHANGED <<swarmVars, repVars, namedVars>>

ReplicaReconcileAbsent ==
    /\ repInv = NoRepInv
    /\ \E ok \in BOOLEAN :
          /\ ReplicaGet(Deleted, ok)
          /\ UNCHANGED <<swarmVars, podVars, namedVars>>

NamedReconcileAbsent ==
    /\ namedInv = NoNamedInv
    /\ \E d \in DroneNames, ok \in BOOLEAN :
          /\ ~namedDrones[d].exists
          /\ NamedGet(d, ok)
          /\ UNCHANGED <<swarmVars, podVars, repVars>>

NextAbsent ==
    \/ SwarmReconcileAbsent
    \/ DroneReconcileAbsent
    \/ ReplicaReconcileAbsent
    \/ NamedReconcileAbsent

SpecAbsent == InitAbsent /\ [][NextAbsent]_vars

\* ------------------------------------------- garbage collection, both variants
\* One pass of a reconciler that collects owned units, from any store state:
\* the store holds the objects of the replica-counted strategy or those of the
\* named-pod strategy, and the reconciler of that strategy makes the pass,
\* while an operator creates further units.
InitCleanup ==
    /\ \/ /\ repDrones \in [DroneNames ->
                  [howMany : {Unset} \cup {SomeInt(v) : v \in 0..MaxReplicas},
                   flyingDrones : {0}]]
          /\ deployments \in {s \in StoredSets :
                  \A n \in SetNames \ {mydrones} :
                      s[n].exists => (s[n].replicas = SomeInt(1) /\ s[n].observed = 0)}
          /\ namedDrones = RestNamedDrones
          /\ namedPods = RestNamedPods
       \/ /\ repDrones = RestRepDrones
          /\ deployments = RestSets
          /\ namedDrones \in [DroneNames -> {NoNamedDrone} \cup
                  [exists : {TRUE}, name : PodNames, statusName : {0}]]
          /\ namedPods \in [PodNames -> {NoNamedPod} \cup
                  [exists : {TRUE}, owner : {0} \cup DroneNames]]
          /\ \E d \in DroneNames : namedDrones[d].exists
    /\ repInv = NoRepInv
    /\ namedInv = NoNamedInv
    /\ swarm = RestSwarm
    /\ drones = {}
    /\ swInv = NoSwInv
    /\ quiet = NoQuiet
    /\ queue = {}
    /\ nodes = {}
    /\ podDrones = RestPodDrones
    /\ pods = RestPods
    /\ podInv = NoPodInv

ReplicaCleanupPass ==
    /\ namedDrones = RestNamedDrones
    /\ repInv.pc # "done"
    /\ ReplicaReconcile(DroneNames, BOOLEAN)
    /\ UNCHANGED <<swarmVars, podVars, namedVars>>

NamedCleanupPass ==
    /\ namedDrones # RestNamedDrones
    /\ namedInv.pc # "done"
    /\ NamedReconcile({d \in DroneNames : namedDrones[d].exists}, BOOLEAN)
    /\ UNCHANGED <<swarmVars, podVars, repVars>>

CleanupWritersMeanwhile ==
    \/ /\ InFlight(repInv)
       /\ ExternalCreateSetAny
    \/ /\ InFlight(namedInv)
       /\ \E p \in PodNames, owner \in {0} \cup DroneNames :
             ExternalCreateNamedPod(p, owner)
       /\ UNCHANGED <<swarmVars, podVars, repVars>>

NextCleanup ==
    \/ ReplicaCleanupPass
    \/ NamedCleanupPass
    \/ CleanupWritersMeanwhile

SpecCleanup == InitCleanup /\ [][NextCleanup]_vars

\* ----------------------------------------------------------- swarm claims
\* A pass of the Swarm Reconciler on an existing Swarm has just returned.
SwarmPassed == swInv.pc = "done" /\ "list" \in Range(swInv.calls)

\* The step is a store call of a Swarm pass.
SwarmCalls == swInv'.calls # swInv.calls /\ swInv'.calls # <<>>

\* C1: in an undisturbed run, once |desiredCount - observedFlyingCount| passes
\* (distance taken at the start) have been made, observedFlyingCount and the
\* number of Drone records both equal desiredCount; until then every pass
\* changes the number of Drone records by exactly one.
C1_Convergence ==
    /\ (~InFlight(swInv) /\ quiet.triggers >= quiet.dist0) =>
          /\ swarm.flyingDrones = swarm.howMany.val
          /\ Cardinality(drones) = swarm.howMany.val
    /\ (SwarmPassed /\ Len(swInv.listed) # swarm.howMany.val) =>
          Abs(Cardinality(drones) - Len(swInv.listed)) = 1

\* C2: a pass of the Swarm Reconciler issues at most one Drone create and at
\* most one Drone delete, never both, and so creates or deletes at most one
\* record.
C2_OneChangePerPass ==
    /\ Count(swInv.calls, "create") + Count(swInv.calls, "delete") <= 1
    /\ swInv.created = NoKey \/ swInv.deleted = NoKey
    /\ swInv.created # NoKey => Count(swInv.calls, "create") = 1
    /\ swInv.deleted # NoKey => Count(swInv.calls, "delete") = 1

C2_Witness ==
    /\ SwarmPassed
    /\ swInv.result = "ok"
    /\ swInv.created \in drones
    /\ Len(swInv.listed) >= 1

\* C3: a pass that lists more Drones than desiredCount deletes exactly the
\* first Drone of the listing it read, wherever the listed Drones lie.
C3_ScaleDownDeletesFirst ==
    (SwarmPassed /\ Len(swInv.listed) > swInv.howMany.val) =>
        /\ swInv.deleted = swInv.listed[1]
        /\ swInv.deleted \notin drones
        /\ Cardinality(drones) = Len(swInv.listed) - 1

\* C4: after a pass that returns without error, status.flyingdrones equals the
\* number of Drone records that lay in the Swarm's own namespace at the
\* moment of the second listing.
C4_StatusCountsOwnNamespace ==
    (SwarmPassed /\ swInv.result = "ok") =>
        swarm.flyingDrones = swInv.relistedOwn

\* ------------------------------------------------------ pod-per-node claims
\* A pass for an existing Drone has just returned that found no unit named
\* like the Drone, read both listings and had no store call fail.
NoUnitPass ==
    /\ podInv.pc = "done"
    /\ podInv.failed = {}
    /\ "listPods" \in Range(podInv.calls)

\* The listed machines that are not in the occupied set, in listing order.
FreeMachines == SelectSeq(podInv.listed, LAMBDA n : n \notin podInv.occupied)

\* C5: a pass that finds no unit while some listed machine is not occupied
\* creates the unit on the first listed machine that is not occupied.
C5_PlacementFirstFree ==
    (NoUnitPass /\ FreeMachines # <<>>) =>
        /\ "create" \in Range(podInv.calls)
        /\ podInv.created.exists
        /\ podInv.created.target = FreeMachines[1]

\* C6: no two pods of the namespace are bound to the same machine.
C6_OnePodPerMachine ==
    \A p, q \in DroneNames :
        (/\ p # q
         /\ pods[p].exists
         /\ pods[q].exists
         /\ pods[p].nodeName # 0) => pods[p].nodeName # pods[q].nodeName

\* C7: a pass that finds no unit while every listed machine is occupied (or
\* none is listed) creates nothing and persists flying = false.
C7_ExhaustionGrounds ==
    (NoUnitPass /\ FreeMachines = <<>>) =>
        /\ "create" \notin Range(podInv.calls)
        /\ "update" \in Range(podInv.calls)
        /\ ~podDrones[podInv.req].flying

\* C8: a pass that finds every listed machine occupied (at least one being
\* listed) returns success, not an error.
C8_ExhaustionIsNoError ==
    (NoUnitPass /\ podInv.listed # <<>> /\ FreeMachines = <<>>) =>
        podInv.result = "ok"

\* --------------------------------------------------- replica-counted claims
\* C9: a pass that directly follows a completed pass for the same Drone, with
\* no change to the store by anyone else in between or meanwhile, issues no
\* create, update, status-update or delete call.
C9_SecondPassWritesNothing ==
    (repInv.pc = "done" /\ repInv.repeat /\ repInv.failed = {}) =>
        Writes(repInv.calls) = <<>>

\* The sets owned by the reconciled Drone and not named like the canonical
\* set, as the pass listed them.
StaleOwned == SelectSeq(repInv.owned, LAMBDA n : n # mydrones)

\* C10 (as claimed): a pass issues at most one write call.
C10_AtMostOneWrite == Len(Writes(repInv.calls)) <= 1

\* C10 (amended): a pass issues at most one create, update or status-update
\* call; its delete calls are those of garbage collection, at most one per
\* listed set owned by the Drone and not named like the canonical set; so it
\* issues at most one write when the Drone owns no such set.
C10_OneWriteAfterCleanup ==
    /\ Count(repInv.calls, "create") + Count(repInv.calls, "update")
          + Count(repInv.calls, "status") <= 1
    /\ Count(repInv.calls, "delete") <= Len(StaleOwned)
    /\ StaleOwned = <<>> => Len(Writes(repInv.calls)) <= 1

C10_Witness ==
    /\ repInv.result = "ok"
    /\ Count(repInv.calls, "delete") = 2
    /\ Count(repInv.calls, "update") = 1
    /\ ~deployments["old-a"].exists
    /\ ~deployments["old-b"].exists

\* The desired replica count of a Drone whose Spec.HowMany is h: h, 1 when it
\* is unset.
DesiredOf(h) == IF h.set THEN h.val ELSE 1

\* The desired replica count of Drone d.
Desired(d) == DesiredOf(repDrones[d].howMany)

\* C11: after a pass for an existing Drone returns without error, the
\* canonical set exists and declares that Drone's desired replica count (1
\* when unset), whichever Drone owns the set and whatever the other Drones of
\* the namespace desire.
C11_DeclaredEqualsDesired ==
    (repInv.pc = "done" /\ repInv.req \in DroneNames /\ repInv.result = "ok") =>
        /\ deployments[mydrones].exists
        /\ deployments[mydrones].replicas = SomeInt(Desired(repInv.req))

C11_Witness ==
    /\ repInv.pc = "done"
    /\ repInv.req \in DroneNames
    /\ repInv.result = "ok"
    /\ "update" \in Range(repInv.calls)
    /\ deployments[mydrones].exists
    /\ deployments[mydrones].owner \in DroneNames \ {repInv.req}
    /\ Desired(deployments[mydrones].owner) # Desired(repInv.req)
    /\ deployments[mydrones].replicas = SomeInt(Desired(repInv.req))

\* A pass has returned that found the canonical set absent and had no store
\* call fail.
Created ==
    /\ repInv.pc = "done"
    /\ repInv.failed = {}
    /\ "create" \in Range(repInv.calls)

\* The canonical set as the claim has it created for the reconciled Drone.
CanonicalSet ==
    [exists |-> TRUE, owner |-> repInv.req,
     replicas |-> SomeInt(Desired(repInv.req)), observed |-> 0]

\* C12 (as claimed): a pass that finds the canonical set absent creates it
\* with the Drone's desired replica count (1 when unset) and the Drone as
\* controller owner, and issues no other write.
C12_CreatePhase ==
    Created =>
        /\ deployments[mydrones] = CanonicalSet
        /\ Writes(repInv.calls) = <<"create">>

\* C12 (amended): a pass that finds the canonical set absent creates it with
\* the Drone's desired replica count (1 when unset) and the Drone as
\* controller owner, with one create call; the writes it issued before are
\* the delete calls of garbage collection, one per listed set owned by the
\* Drone under another name.
C12_CreateAfterCleanup ==
    Created =>
        /\ deployments[mydrones] = CanonicalSet
        /\ Writes(repInv.calls) =
              [i \in 1..Len(StaleOwned) |-> "delete"] \o <<"create">>

C12_Witness ==
    /\ Created
    /\ repInv.result = "ok"
    /\ ~repDrones[repInv.req].howMany.set
    /\ deployments[mydrones].owner = repInv.req
    /\ deployments[mydrones].replicas = SomeInt(1)
    /\ Count(repInv.calls, "delete") = 1
    /\ ~deployments[StaleOwned[1]].exists

\* The step is a store call of a replica-counted pass.
ReplicaCalls == repInv'.calls # repInv.calls /\ repInv'.calls # <<>>

\* The step is the Update call of a pass, and it succeeds: the pass found the
\* canonical set declaring a count other than the desired one.
Adjusts == ReplicaCalls /\ repInv.pc = "update" /\ "update" \notin repInv'.failed

\* C13 (as claimed): the adjust pass sets the declared count of the canonical
\* set to the desired value and issues no other write.
C13_AdjustChangesOnlyCount ==
    [][Adjusts =>
          /\ deployments' =
                [deployments EXCEPT ![mydrones].replicas = SomeInt(Desired(repInv.req))]
          /\ repDrones' = repDrones
          /\ Writes(repInv'.calls) = <<"update">>]_vars

\* C13 (amended): the adjust pass sets the declared count of the canonical set
\* to the desired value with one update call, keeps its owner and observed
\* count, every other set and every Drone; the writes it issued before are
\* the delete calls of garbage collection, one per listed set owned by the
\* Drone under another name.
C13_AdjustAfterCleanup ==
    [][Adjusts =>
          /\ deployments' =
                [deployments EXCEPT ![mydrones].replicas = SomeInt(Desired(repInv.req))]
          /\ repDrones' = repDrones
          /\ Writes(repInv'.calls) =
                [i \in 1..Len(StaleOwned) |-> "delete"] \o <<"update">>]_vars

C13_Witness ==
    /\ repInv.req \in DroneNames
    /\ repInv.result = "ok"
    /\ Count(repInv.calls, "update") = 1
    /\ Count(repInv.calls, "delete") = 1
    /\ deployments[mydrones].owner # repInv.req
    /\ deployments[mydrones].replicas = SomeInt(Desired(repInv.req))
    /\ deployments[mydrones].replicas # SomeInt(1)

\* The step is a store call of garbage collection (the listing or a Delete)
\* of a replica-counted pass, of a named-pod pass, and the call succeeds.
ReplicaCollects ==
    /\ repInv.pc \in {"listOwned", "delete"}
    /\ repInv'.calls # repInv.calls
    /\ repInv'.failed = {}

NamedCollects ==
    /\ namedInv.pc \in {"listOwned", "delete"}
    /\ namedInv'.calls # namedInv.calls
    /\ namedInv'.failed = {}

\* C14: a collection pass with no failing call issues a Delete for exactly
\* the units that its listing shows as owned by the reconciled Drone and not
\* named like the Drone's desired unit: the listing holds the units owned by
\* the Drone, each Delete removes the next such unit and nothing else, and
\* collection ends when one Delete per such unit has been issued; the desired
\* unit and the units of other owners are never deleted.
C14_CollectsOwnedStale ==
    [][/\ ReplicaCollects =>
             /\ repInv.pc = "listOwned" =>
                   /\ Range(repInv'.owned) =
                         {n \in SetNames : deployments[n].exists
                                              /\ deployments[n].owner = repInv.req}
                   /\ Range(repInv'.todo) = Range(repInv'.owned) \ {mydrones}
                   /\ deployments' = deployments
             /\ repInv.pc = "delete" =>
                   LET n == Head(repInv.todo) IN
                   /\ n # mydrones
                   /\ deployments[n].owner = repInv.req
                   /\ deployments' = [deployments EXCEPT ![n] = NoSet]
             /\ repInv'.pc = "getSet" =>
                   Count(repInv'.calls, "delete") = Cardinality(Range(repInv'.owned) \ {mydrones})
       /\ NamedCollects =>
             /\ namedInv.pc = "listOwned" =>
                   /\ Range(namedInv'.owned) =
                         {p \in PodNames : namedPods[p].exists
                                              /\ namedPods[p].owner = namedInv.req}
                   /\ Range(namedInv'.todo) = Range(namedInv'.owned) \ {namedInv.name}
                   /\ namedPods' = namedPods
             /\ namedInv.pc = "delete" =>
                   LET p == Head(namedInv.todo) IN
                   /\ p # namedInv.name
                   /\ namedPods[p].owner = namedInv.req
                   /\ namedPods' = [namedPods EXCEPT ![p] = NoNamedPod]
             /\ namedInv'.pc = "getPod" =>
                   Count(namedInv'.calls, "delete") =
                       Cardinality(Range(namedInv'.owned) \ {namedInv.name})]_vars

C14_Witness ==
    /\ repInv.req \in DroneNames
    /\ repInv.pc = "getSet"
    /\ Len(repInv.owned) = 3
    /\ Count(repInv.calls, "delete") = 2
    /\ deployments[mydrones].exists
    /\ deployments[mydrones].owner = repInv.req
    /\ ~deployments["old-a"].exists
    /\ ~deployments["old-b"].exists

\* C15: a pass whose status write fails returns an error.
C15_StatusFailureSurfaced ==
    (repInv.pc = "done" /\ "status" \in repInv.failed) => repInv.result = "error"

\* C16: no pass of the Swarm Reconciler or of a Drone Reconciler ends in a
\* crash.
C16_NoCrash ==
    /\ swInv.result # "panic"
    /\ podInv.result # "panic"
    /\ repInv.result # "panic"

\* C17: whenever an external actor has created or deleted a Drone record
\* since the last pass and the number of Drone records differs from the
\* desired count of their Swarm, a request for the Swarm is eventually queued
\* (or the numbers agree again).
C17_DroneEventsRetrigger ==
    (swInv = NoSwInv /\ Cardinality(drones) # swarm.howMany.val)
        ~> (SwarmNamespace \in queue \/ Cardinality(drones) = swarm.howMany.val)

\* ------------------------------------------------ pod-per-node claims, cont.
\* C18: a pass that finds no unit for the Drone and whose placement selects a
\* machine creates exactly one unit, named like the Drone, targeting that
\* machine and owned by the Drone; when no write fails the Drone's stored
\* status has flying = true when the pass returns.
C18_SuccessPath ==
    (/\ podInv.pc = "done"
     /\ podInv.failed \subseteq {"update"}
     /\ "listPods" \in Range(podInv.calls)
     /\ podInv.listed # <<>>
     /\ podInv.listed[1] \notin podInv.occupied) =>
        /\ Count(podInv.calls, "create") = 1
        /\ podInv.created = [exists |-> TRUE, owner |-> podInv.req,
                             target |-> podInv.listed[1], nodeName |-> 0]
        /\ podInv.failed = {} => podDrones[podInv.req].flying

C18_Witness ==
    /\ podInv.pc = "done"
    /\ podInv.failed = {}
    /\ Count(podInv.calls, "create") = 1
    /\ pods[podInv.req].exists
    /\ pods[podInv.req].owner = podInv.req
    /\ pods[podInv.req].target = podInv.listed[1]
    /\ podDrones[podInv.req].flying
    /\ podInv.occupied # {}

\* The step is a store call of a pod-per-node pass.
DroneCalls == podInv'.calls # podInv.calls /\ podInv'.calls # <<>>

\* C19: a pass that finds the unit named like the Drone returns success at
\* once, having issued no write; and a step that changes flying from false to
\* true belongs to a pass that created the Drone's unit itself.
C19_PresentIsTerminal ==
    [][\A d \in DroneNames :
          /\ (DroneCalls /\ podInv'.req = d /\ podInv'.found) =>
                /\ Writes(podInv'.calls) = <<>>
                /\ podInv'.result = "ok"
                /\ pods' = pods
                /\ podDrones' = podDrones
          /\ (podDrones[d].exists /\ ~podDrones[d].flying /\ podDrones'[d].flying) =>
                (podInv'.req = d /\ podInv'.created.exists)]_vars

C19_Witness ==
    /\ podInv.pc = "done"
    /\ podInv.found
    /\ podInv.result = "ok"
    /\ pods[podInv.req].exists
    /\ podDrones[podInv.req].exists
    /\ ~podDrones[podInv.req].flying

\* C20: after a pass for an existing Drone returns without error, no unit
\* owned by that Drone under another name remains.
C20_NoStaleOwnedUnit ==
    (podInv.pc = "done" /\ podDrones[podInv.req].exists /\ podInv.result = "ok") =>
        \A p \in DroneNames \ {podInv.req} :
            ~(pods[p].exists /\ pods[p].owner = podInv.req)

\* ------------------------------------------ replica-counted claims, cont.
\* C21: when a Delete call of garbage collection fails, the pass returns an
\* error at once: the failing call changes nothing, the unit it named and the
\* units later in the listing are still to be deleted and exist, and no call
\* follows it; every Delete before it removed its unit.
C21_CleanupStopsAtFailure ==
    [][/\ (ReplicaCalls /\ "delete" \in repInv'.failed) =>
             LET k == Count(repInv'.calls, "delete") IN
             /\ repInv'.pc = "done"
             /\ repInv'.result = "error"
             /\ repInv'.calls = <<"get", "listOwned">> \o [i \in 1..k |-> "delete"]
             /\ k \in 1..Len(StaleOwned)
             /\ repInv'.todo = SubSeq(StaleOwned, k, Len(StaleOwned))
             /\ \A i \in k..Len(StaleOwned) : deployments'[StaleOwned[i]].exists
             /\ repInv.pc = "delete" =>
                   (deployments' = deployments /\ repDrones' = repDrones)
       /\ (ReplicaCalls /\ repInv.pc = "delete" /\ "delete" \notin repInv'.failed) =>
             /\ deployments' = [deployments EXCEPT ![Head(repInv.todo)] = NoSet]
             /\ repInv'.todo = Tail(repInv.todo)]_vars

C21_Witness ==
    /\ repInv.req \in DroneNames
    /\ "delete" \in repInv.failed
    /\ repInv.result = "error"
    /\ Count(repInv.calls, "delete") = 2
    /\ ~deployments["old-b"].exists
    /\ deployments["old-a"].exists
    /\ deployments["old-a"].owner = repInv.req

\* C22: a pass that finds the canonical set declaring the desired count goes
\* on to the status write, and the status write stores the observed replica
\* count of the canonical set, as the pass fetched it, in the Drone's status,
\* changes no other Drone and does not write the canonical set.
C22_SyncCopiesObserved ==
    [][/\ (/\ repInv.pc = "getSet"
           /\ "getSet" \in Range(repInv'.calls)
           /\ "getSet" \notin repInv'.failed
           /\ deployments[mydrones].exists
           /\ deployments[mydrones].replicas = SomeInt(Desired(repInv.req))) =>
              /\ repInv'.pc = "status"
              /\ repInv'.deployment = deployments[mydrones]
       /\ (ReplicaCalls /\ repInv.pc = "status" /\ "status" \notin repInv'.failed) =>
              /\ repDrones' = [repDrones EXCEPT ![repInv.req].flyingDrones =
                                                    repInv.deployment.observed]
              /\ deployments' = deployments
              /\ Count(repInv'.calls, "status") = 1
              /\ Count(repInv'.calls, "create") + Count(repInv'.calls, "update") = 0]_vars

C22_Witness ==
    /\ repInv.req \in DroneNames
    /\ repInv.failed = {}
    /\ repInv.result = "ok"
    /\ Count(repInv.calls, "status") = 1
    /\ deployments[mydrones].observed # 0
    /\ repDrones[repInv.req].flyingDrones = deployments[mydrones].observed

\* C23: in an undisturbed run for Drone 1 the store eventually holds the
\* canonical set with the desired declared count, and the Drone's status
\* equals the observed count of the set; and a pass that directly follows a
\* completed pass (a create, an adjust or a sync pass) finds the set with the
\* desired count and goes on to the status write.
C23_Converges ==
    /\ <>(/\ deployments[mydrones].exists
          /\ deployments[mydrones].replicas = SomeInt(Desired(1))
          /\ repDrones[1].flyingDrones = deployments[mydrones].observed)
    /\ [][(ReplicaCalls /\ repInv.pc = "getSet" /\ repInv.repeat) =>
             /\ repInv'.pc = "status"
             /\ repInv'.deployment.replicas = SomeInt(Desired(1))]_vars

C23_Witness ==
    /\ repInv.pc = "done"
    /\ repInv.repeat
    /\ Writes(repInv.calls) = <<"status">>
    /\ ~repDrones[1].howMany.set
    /\ deployments[mydrones].owner = 1
    /\ deployments[mydrones].replicas = SomeInt(1)
    /\ repDrones[1].flyingDrones = deployments[mydrones].observed

\* ------------------------------------------------------ swarm claims, cont.
\* C24: a pass of the Swarm Reconciler whose Drone create or Drone delete
\* fails returns an error.
C24_WriteFailureSurfaced ==
    (swInv.pc = "done" /\ swInv.failed \cap {"create", "delete"} # {}) =>
        swInv.result = "error"

\* C27: a pass of the Swarm Reconciler that lists as many Drones as the
\* desired count issues no create and no delete; the only write it may issue
\* is the update of the Swarm, and none of its steps changes a Drone record.
C27_FixedPoint ==
    [][(/\ SwarmCalls
        /\ "list" \in Range(swInv'.calls)
        /\ "list" \notin swInv'.failed
        /\ swInv'.howMany.set
        /\ Len(swInv'.listed) = swInv'.howMany.val) =>
          /\ drones' = drones
          /\ swInv'.created = NoKey
          /\ swInv'.deleted = NoKey
          /\ Writes(swInv'.calls) \in {<<>>, <<"update">>}]_vars

C27_Witness ==
    /\ SwarmPassed
    /\ swInv.result = "ok"
    /\ swInv.howMany = SomeInt(2)
    /\ Len(swInv.listed) = 2
    /\ Cardinality(drones) = 2
    /\ Writes(swInv.calls) = <<"update">>
    /\ swarm.flyingDrones = 2

\* C28: every Drone record a step of a pass of the Swarm Reconciler adds to
\* or removes from the store lies in the namespace of the request.
C28_OwnNamespaceOnly ==
    [][SwarmCalls =>
          \A k \in (drones' \ drones) \cup (drones \ drones') :
              k.ns = swInv'.req]_vars

C28_Witness ==
    /\ SwarmPassed
    /\ swInv.result = "ok"
    /\ swInv.deleted # NoKey
    /\ swInv.deleted.ns = swInv.req
    /\ swInv.listed[1].ns # swInv.req
    /\ swInv.deleted \notin drones
    /\ swInv.listed[1] \in drones

\* --------------------------------------------------- claims on all reconcilers
\* No reconciliation whose store calls succeed can change the store any more:
\* for every Drone garbage collection finds nothing to delete, the canonical
\* set declares the Drone's desired count, and the Drone's status holds the
\* observed count of the set.
ReplicaQuiescent ==
    /\ ~InFlight(repInv)
    /\ \A d \in DroneNames :
          /\ ToDelete(OwnedInOrder(d)) = <<>>
          /\ deployments[mydrones].exists
          /\ deployments[mydrones].replicas = SomeInt(expectedReplicas(repDrones[d].howMany))
          /\ repDrones[d].flyingDrones = deployments[mydrones].observed

\* C25: in a quiescent state every Drone has exactly one Deployment whose
\* controller owner is that Drone.
C25_OneOwnedUnitPerDrone ==
    ReplicaQuiescent =>
        \A d \in DroneNames :
            Cardinality({n \in SetNames :
                            deployments[n].exists /\ deployments[n].owner = d}) = 1

\* C26: a pass whose fetch finds no Swarm, or no Drone, of the requested name
\* issues the fetch only, returns success and leaves the store as it was.
C26_AbsentPrimaryIsSilent ==
    [][/\ (/\ swInv' # swInv
           /\ swInv'.failed = {}
           /\ ~(swarm.exists /\ swInv'.req = SwarmNamespace)) =>
              /\ swInv'.calls = <<"get">>
              /\ swInv'.result = "ok"
              /\ drones' = drones
              /\ swarm' = swarm
       /\ (/\ podInv' # podInv
           /\ podInv'.failed = {}
           /\ ~podDrones[podInv'.req].exists) =>
              /\ podInv'.calls = <<"get">>
              /\ podInv'.result = "ok"
              /\ pods' = pods
              /\ podDrones' = podDrones
       /\ (/\ repInv' # repInv
           /\ repInv'.failed = {}
           /\ repInv'.req = Deleted) =>
              /\ repInv'.calls = <<"get">>
              /\ repInv'.result = "ok"
              /\ deployments' = deployments
              /\ repDrones' = repDrones
       /\ (/\ namedInv' # namedInv
           /\ namedInv'.failed = {}
           /\ ~namedDrones[namedInv'.req].exists) =>
              /\ namedInv'.calls = <<"get">>
              /\ namedInv'.result = "ok"
              /\ namedPods' = namedPods
              /\ namedDrones' = namedDrones]_vars

C26_Witness ==
    /\ swInv.calls = <<"get">>
    /\ swInv.result = "ok"
    /\ drones # {}
    /\ podInv.calls = <<"get">>
    /\ podInv.result = "ok"
    /\ repInv.req = Deleted
    /\ repInv.calls = <<"get">>
    /\ repInv.result = "ok"
    /\ deployments[mydrones].exists
    /\ namedInv.calls = <<"get">>
    /\ namedInv.result = "ok"
    /\ namedPods # RestNamedPods

\* C29: a pass of the pod-per-node reconciler issues at most one create, and
\* only after its lookup found no pod named like the Drone; the only pod a
\* step of a pass adds is the one named like the Drone and owned by it, and no
\* step of a pass changes or removes a pod.
C29_OneUnitPerDrone ==
    [][\A d \in DroneNames :
          (DroneCalls /\ podInv'.req = d) =>
              /\ Count(podInv'.calls, "create") <= 1
              /\ "create" \in Range(podInv'.calls) => ~podInv'.found
              /\ \A p \in DroneNames :
                    (pods'[p] # pods[p]) =>
                        (p = d /\ ~pods[p].exists /\ pods'[p].owner = d)]_vars

C29_Witness ==
    /\ podInv.req # 0
    /\ Count(podInv.calls, "create") = 1
    /\ pods[podInv.req].exists
    /\ pods[podInv.req].owner = podInv.req
    /\ \E p \in DroneNames \ {podInv.req} : pods[p].exists /\ pods[p].owner = p

====
